---- MODULE Spec2Model ----
(***************************************************************************)
(* Story / transformation state machine of src/script.js.                  *)
(*                                                                         *)
(* Units: time in tenths of a second (100 ms), distance in tenths of a     *)
(* world unit, gain values in thousandths, light intensity in tenths.      *)
(***************************************************************************)
EXTENDS Integers, Sequences, FiniteSets, TLC

(* ---------------- program constants (src/script.js) -------------------- *)
TriggerDistance     == 15
VeryCloseDistance   == 40
ApproachingDistance == 60
IntroDistance       == 100
maxDistance         == 100

DefaultDuration        == 30
TouchDuration          == 30
TransformationDuration == 50
EpilogueDuration       == 80
IntroDelay             == 20
Step2Delay             == 30
Step3Delay             == 50
FadeDelay              == 1
FadeDuration           == 80
RestartDelay           == 80

AmbientInitial == 5
PointInitial   == 10
AmbientDimmed  == 1
PointDimmed    == 2

MasterInitial == 700
DryInitial    == 1000
WetInitial    == 0
WetMaximum    == 1000

(* ---------------- bounds of the model ---------------------------------- *)
MaxTime       == 40
TimeStep      == 10
ParticleCount == 2

Distances   == {12, 15, 30, 40, 60, 90, 100}
Deltas      == {10, 20}
LifeChoices == {20, 30}

(* ---------------- storyStates (src/script.js:384-391) ------------------ *)
INTRO          == "intro"
APPROACHING    == "approaching"
VERY_CLOSE     == "very_close"
TOUCH          == "touch"
TRANSFORMATION == "transformation"
EPILOGUE       == "epilogue"
NULL           == "null"

storyStates == {INTRO, APPROACHING, VERY_CLOSE, TOUCH, TRANSFORMATION, EPILOGUE}

\* The states of the transformation sequence.
TerminalStates == {TOUCH, TRANSFORMATION, EPILOGUE}

\* storyText: the literal text of a state, named by its first words.
storyText(state) ==
    CASE state = INTRO          -> "You find yourself"
      [] state = APPROACHING    -> "As you draw closer"
      [] state = VERY_CLOSE     -> "The light pulses faster"
      [] state = TOUCH          -> "You reach out"
      [] state = TRANSFORMATION -> "The fragments of light"
      [] state = EPILOGUE       -> "As your consciousness expands"

VARIABLES
    started,            \* the top-level animate() call and intro timer are done
    now,                \* wall clock
    timers,             \* pending setTimeout callbacks, in registration order
    currentStoryState,
    storyTimeout,       \* handle of the last hide timer, 0 = null
    hasCompletedGame,
    display,            \* storyContainer.style.display
    textContent,        \* storyContainer.textContent
    orbVisible,
    audioContext,       \* TRUE when defined
    masterGainNode,     \* [defined, gain]: the node and its gain target
    wetGainNode,
    dryGainNode,
    tones,              \* transition oscillators started
    ambientIntensity,
    pointIntensity,
    effects,            \* effect groups among scene.children, in order
    fadeOverlay,        \* "absent", "transparent" or "fading"
    fadeStart,          \* time at which the opacity transition began
    restartButtons,     \* restart buttons appended to the document
    thrown,             \* a handler ended with an uncaught TypeError
    triggerCount,       \* history: executions of the trigger body
    triggerTime,        \* history: time of the trigger, -1 before it
    observing,          \* history: whether every display is recorded
    shown,              \* history: states displayed, in order; those of the
                        \* transformation sequence are always recorded
    prevDistance        \* history: last reading (scenario specifications)

vars == <<started, now, timers, currentStoryState, storyTimeout,
          hasCompletedGame, display, textContent, orbVisible, audioContext,
          masterGainNode, wetGainNode, dryGainNode, tones, ambientIntensity,
          pointIntensity, effects, fadeOverlay, fadeStart, restartButtons,
          thrown, triggerCount, triggerTime, observing, shown,
          prevDistance>>

\* The program state as one record, so that handlers compose as functions.
State ==
    [started |-> started, now |-> now, timers |-> timers,
     currentStoryState |-> currentStoryState, storyTimeout |-> storyTimeout,
     hasCompletedGame |-> hasCompletedGame, display |-> display,
     textContent |-> textContent, orbVisible |-> orbVisible,
     audioContext |-> audioContext, masterGainNode |-> masterGainNode,
     wetGainNode |-> wetGainNode, dryGainNode |-> dryGainNode,
     tones |-> tones, ambientIntensity |-> ambientIntensity,
     pointIntensity |-> pointIntensity, effects |-> effects,
     fadeOverlay |-> fadeOverlay, fadeStart |-> fadeStart,
     restartButtons |-> restartButtons, thrown |-> thrown,
     triggerCount |-> triggerCount, triggerTime |-> triggerTime,
     observing |-> observing, shown |-> shown]

Assign(r) ==
    /\ started' = r.started
    /\ now' = r.now
    /\ timers' = r.timers
    /\ currentStoryState' = r.currentStoryState
    /\ storyTimeout' = r.storyTimeout
    /\ hasCompletedGame' = r.hasCompletedGame
    /\ display' = r.display
    /\ textContent' = r.textContent
    /\ orbVisible' = r.orbVisible
    /\ audioContext' = r.audioContext
    /\ masterGainNode' = r.masterGainNode
    /\ wetGainNode' = r.wetGainNode
    /\ dryGainNode' = r.dryGainNode
    /\ tones' = r.tones
    /\ ambientIntensity' = r.ambientIntensity
    /\ pointIntensity' = r.pointIntensity
    /\ effects' = r.effects
    /\ fadeOverlay' = r.fadeOverlay
    /\ fadeStart' = r.fadeStart
    /\ restartButtons' = r.restartButtons
    /\ thrown' = r.thrown
    /\ triggerCount' = r.triggerCount
    /\ triggerTime' = r.triggerTime
    /\ observing' = r.observing
    /\ shown' = r.shown

Max(a, b) == IF a >= b THEN a ELSE b

\* Body applied to the value of st, which is evaluated once.
With(Body(_), st) == CHOOSE result \in {Body(value) : value \in {st}} : TRUE

(* ---------------- the host's timer facility ---------------------------- *)
TimerIds(st) == {st.timers[i].id : i \in 1..Len(st.timers)}

\* A handle no pending timer and no stored handle uses.
FreshHandle(st) ==
    CHOOSE h \in 1..(Len(st.timers) + 2) :
        /\ h \notin TimerIds(st) \cup {st.storyTimeout}
        /\ \A g \in 1..(h - 1) : g \in TimerIds(st) \cup {st.storyTimeout}

\* setTimeout(callback, delay): kind names the callback, state the story
\* state a hide callback was started for.
SetTimeout(s0, kind, delay, state) ==
    LET On(st) ==
        [st EXCEPT !.timers = Append(@, [id |-> FreshHandle(st),
                                         due |-> st.now + delay,
                                         kind |-> kind, state |-> state])]
    IN With(On, s0)

ClearTimeout(s0, handle) ==
    LET On(st) ==
        [st EXCEPT !.timers = SelectSeq(@, LAMBDA t : t.id # handle)]
    IN With(On, s0)

RemoveAt(seq, i) == SubSeq(seq, 1, i - 1) \o SubSeq(seq, i + 1, Len(seq))

(* ---------------- showStoryText (src/script.js:408-426) ---------------- *)
\* Variant: the pending hide timer is not cleared.
ShowStoryTextNoClear(s0, state, duration) ==
    LET On(st) ==
        IF st.currentStoryState = state THEN st
        ELSE LET set == [st EXCEPT !.currentStoryState = state,
                                   !.textContent = storyText(state),
                                   !.display = "block",
                                   !.shown = IF \/ st.observing
                                                \/ state \in TerminalStates
                                             THEN Append(@, state) ELSE @]
             IN [SetTimeout(set, "hide", duration, state)
                    EXCEPT !.storyTimeout = FreshHandle(set)]
    IN With(On, s0)

\* Variant: restarts the display of a state that is already showing.
ShowStoryTextRestarting(s0, state, duration) ==
    LET On(st) ==
        LET cleared == IF st.storyTimeout # 0
                       THEN ClearTimeout(st, st.storyTimeout) ELSE st
            set == [cleared EXCEPT !.currentStoryState = state,
                                   !.textContent = storyText(state),
                                   !.display = "block",
                                   !.shown = IF \/ cleared.observing
                                                \/ state \in TerminalStates
                                             THEN Append(@, state) ELSE @]
        IN [SetTimeout(set, "hide", duration, state)
               EXCEPT !.storyTimeout = FreshHandle(set)]
    IN With(On, s0)

ShowStoryText(s0, state, duration) ==
    LET On(st) ==
        IF st.currentStoryState = state THEN st
        ELSE LET cleared == IF st.storyTimeout # 0
                            THEN ClearTimeout(st, st.storyTimeout) ELSE st
                 set == [cleared EXCEPT !.currentStoryState = state,
                                        !.textContent = storyText(state),
                                        !.display = "block",
                                        !.shown = IF \/ cleared.observing
                                                     \/ state \in TerminalStates
                                                  THEN Append(@, state) ELSE @]
             IN [SetTimeout(set, "hide", duration, state)
                    EXCEPT !.storyTimeout = FreshHandle(set)]
    IN With(On, s0)

\* Variant: the hide callback leaves currentStoryState as it is.
HideCallbackKeepsState(s0) ==
    LET On(st) ==
        [st EXCEPT !.display = "none"]
    IN With(On, s0)

\* The hide callback of showStoryText (src/script.js:422-425).
HideCallback(s0) ==
    LET On(st) ==
        [st EXCEPT !.display = "none", !.currentStoryState = NULL]
    IN With(On, s0)


(* ---------------- particle groups -------------------------------------- *)
\* Opacity is kept in 600ths.  Positions and velocities carry no state the
\* story machine reads and are left out.  id is the particle's position in
\* the group at creation and stands for the mesh object's identity.
OpacityOne == 600

\* createShatterEffect (src/script.js:470-506); lives are the values of
\* 2 + Math.random() * 2, one per particle.
CreateShatterEffect(s0, lives) ==
    LET On(st) ==
        [st EXCEPT !.effects = Append(@,
            [kind |-> "shatter", turns |-> 0,
             particles |-> [i \in 1..ParticleCount |->
                                [id |-> i, life |-> lives[i],
                                 opacity |-> OpacityOne]]])]
    IN With(On, s0)

\* createPlayerTransformationEffect (src/script.js:509-550); material
\* opacity 0.8.  turns counts the updates of the group, modulo 2: each
\* update moves every particle on its orbit.
CreatePlayerTransformationEffect(s0) ==
    LET On(st) ==
        [st EXCEPT !.effects = Append(@,
            [kind |-> "transformation", turns |-> 0,
             particles |-> [i \in 1..ParticleCount |->
                                [id |-> i, life |-> 0, opacity |-> 480]]])]
    IN With(On, s0)

\* The first loop of updateShatterParticles (src/script.js:651-668):
\* life -= delta, opacity = max(0, life / 3).
AgeShatterParticles(group, delta) ==
    [i \in 1..Len(group.particles) |->
        [id |-> group.particles[i].id,
         life |-> group.particles[i].life - delta,
         opacity |-> Max(0, (group.particles[i].life - delta) * 20)]]

\* Variant: a particle is marked for removal when life < 0.
UpdateShatterGroupStrictExpiry(group, delta) ==
    [group EXCEPT !.particles = SelectSeq(AgeShatterParticles(group, delta),
                                          LAMBDA p : ~(p.life < 0))]

\* updateShatterParticles (src/script.js:648-676), the part on the group:
\* the particles marked with life <= 0 are removed after the loop.
UpdateShatterGroup(group, delta) ==
    [group EXCEPT !.particles = SelectSeq(AgeShatterParticles(group, delta),
                                          LAMBDA p : ~(p.life <= 0))]

\* updateTransformationParticles (src/script.js:683-716): the particles move
\* on; none is removed, and the group stays in the scene.
UpdateTransformationGroup(group, delta) ==
    [group EXCEPT !.turns = (@ + 1) % 2]

\* scene.children.forEach (src/script.js:850-860) over the effect groups:
\* index i advances by one per visit, also when the visited group removed
\* itself from the array (src/script.js:678-680).
RECURSIVE UpdateEffects(_, _, _)
UpdateEffects(groups, i, delta) ==
    IF i > Len(groups) THEN groups
    ELSE IF groups[i].kind = "shatter"
         THEN LET g == UpdateShatterGroup(groups[i], delta)
              IN IF Len(g.particles) = 0
                 THEN UpdateEffects(RemoveAt(groups, i), i + 1, delta)
                 ELSE UpdateEffects([groups EXCEPT ![i] = g], i + 1, delta)
         ELSE UpdateEffects(
                 [groups EXCEPT ![i] = UpdateTransformationGroup(groups[i], delta)],
                 i + 1, delta)

(* ---------------- audio ------------------------------------------------ *)
\* initAudio (src/script.js:28-63).
UndefinedNode == [defined |-> FALSE, gain |-> 0]
GainNode(value) == [defined |-> TRUE, gain |-> value]
Defined(node) == node.defined

InitAudio(s0) ==
    LET On(st) ==
        [st EXCEPT !.audioContext = TRUE,
                   !.masterGainNode = GainNode(MasterInitial),
                   !.dryGainNode = GainNode(DryInitial),
                   !.wetGainNode = GainNode(WetInitial)]
    IN With(On, s0)

\* A gain write of updateAudioEffects would dereference an undefined node.
NodesMissing(st) ==
    ~(Defined(st.masterGainNode) /\ Defined(st.wetGainNode)
      /\ Defined(st.dryGainNode))

\* updateAudioEffects (src/script.js:157-168); p is the proximity factor in
\* hundredths.
UpdateAudioEffects(s0, p) ==
    LET On(st) ==
        IF ~st.audioContext THEN st
        ELSE IF NodesMissing(st)
             THEN [st EXCEPT !.thrown = TRUE]
             ELSE [st EXCEPT !.masterGainNode = GainNode(700 - 9 * p),
                             !.wetGainNode = GainNode(8 * p),
                             !.dryGainNode = GainNode(1000 - 5 * p)]
    IN With(On, s0)

(* ---------------- triggerTransformation (src/script.js:552-645) -------- *)
\* Variant: the latch is tested but never set.
TriggerTransformationNoLatch(s0, lives) ==
    LET On(st) ==
        IF st.hasCompletedGame THEN st
        ELSE LET counted == [st EXCEPT !.triggerCount = @ + 1,
                                       !.triggerTime = st.now]
                 touched == ShowStoryText(counted, TOUCH, TouchDuration)
                 shattered == CreateShatterEffect(touched, lives)
                 hidden == [shattered EXCEPT !.orbVisible = FALSE]
             IN SetTimeout(hidden, "step2", Step2Delay, NULL)
    IN With(On, s0)

\* Variant: the orb stays visible after the trigger.
TriggerTransformationOrbStays(s0, lives) ==
    LET On(st) ==
        IF st.hasCompletedGame THEN st
        ELSE LET latched == [st EXCEPT !.hasCompletedGame = TRUE,
                                       !.triggerCount = @ + 1,
                                       !.triggerTime = st.now]
                 touched == ShowStoryText(latched, TOUCH, TouchDuration)
                 shattered == CreateShatterEffect(touched, lives)
             IN SetTimeout(shattered, "step2", Step2Delay, NULL)
    IN With(On, s0)

TriggerTransformation(s0, lives) ==
    LET On(st) ==
        IF st.hasCompletedGame THEN st
        ELSE LET latched == [st EXCEPT !.hasCompletedGame = TRUE,
                                       !.triggerCount = @ + 1,
                                       !.triggerTime = st.now]
                 touched == ShowStoryText(latched, TOUCH, TouchDuration)
                 shattered == CreateShatterEffect(touched, lives)
                 hidden == [shattered EXCEPT !.orbVisible = FALSE]
             IN SetTimeout(hidden, "step2", Step2Delay, NULL)
    IN With(On, s0)

\* Variant: the epilogue is scheduled inside the audio block of lines 582-598.
Step2CallbackChainInAudioBlock(s0) ==
    LET On(st) ==
        LET texted == ShowStoryText(st, TRANSFORMATION, TransformationDuration)
            swirled == CreatePlayerTransformationEffect(texted)
            dimmed == [swirled EXCEPT !.ambientIntensity = AmbientDimmed,
                                      !.pointIntensity = PointDimmed]
        IN IF Defined(dimmed.wetGainNode) /\ ~dimmed.audioContext
           THEN [dimmed EXCEPT !.thrown = TRUE]
           ELSE LET ramped == IF Defined(dimmed.wetGainNode)
                              THEN [dimmed EXCEPT !.wetGainNode = GainNode(WetMaximum)]
                              ELSE dimmed
                IN IF ramped.audioContext
                   THEN SetTimeout([ramped EXCEPT !.tones = @ + 1],
                                   "step3", Step3Delay, NULL)
                   ELSE ramped
    IN With(On, s0)

\* Variant: the reverb ramp without the test of wetGainNode (line 577).
Step2CallbackUnguardedReverb(s0) ==
    LET On(st) ==
        LET texted == ShowStoryText(st, TRANSFORMATION, TransformationDuration)
            swirled == CreatePlayerTransformationEffect(texted)
            dimmed == [swirled EXCEPT !.ambientIntensity = AmbientDimmed,
                                      !.pointIntensity = PointDimmed]
        IN IF ~Defined(dimmed.wetGainNode) \/ ~dimmed.audioContext
           THEN [dimmed EXCEPT !.thrown = TRUE]
           ELSE LET ramped == [dimmed EXCEPT !.wetGainNode = GainNode(WetMaximum)]
                    toned == IF ramped.audioContext
                             THEN [ramped EXCEPT !.tones = @ + 1]
                             ELSE ramped
                IN SetTimeout(toned, "step3", Step3Delay, NULL)
    IN With(On, s0)

\* Variant: the point light is not dimmed.
Step2CallbackDimsAmbientOnly(s0) ==
    LET On(st) ==
        LET texted == ShowStoryText(st, TRANSFORMATION, TransformationDuration)
            swirled == CreatePlayerTransformationEffect(texted)
            dimmed == [swirled EXCEPT !.ambientIntensity = AmbientDimmed]
        IN IF Defined(dimmed.wetGainNode) /\ ~dimmed.audioContext
           THEN [dimmed EXCEPT !.thrown = TRUE]
           ELSE LET ramped == IF Defined(dimmed.wetGainNode)
                              THEN [dimmed EXCEPT !.wetGainNode = GainNode(WetMaximum)]
                              ELSE dimmed
                    toned == IF ramped.audioContext
                             THEN [ramped EXCEPT !.tones = @ + 1]
                             ELSE ramped
                IN SetTimeout(toned, "step3", Step3Delay, NULL)
    IN With(On, s0)

\* The callback scheduled at src/script.js:566 (lines 567-643).
Step2Callback(s0) ==
    LET On(st) ==
        LET texted == ShowStoryText(st, TRANSFORMATION, TransformationDuration)
            swirled == CreatePlayerTransformationEffect(texted)
            dimmed == [swirled EXCEPT !.ambientIntensity = AmbientDimmed,
                                      !.pointIntensity = PointDimmed]
        IN IF Defined(dimmed.wetGainNode) /\ ~dimmed.audioContext
           THEN [dimmed EXCEPT !.thrown = TRUE]
           ELSE LET ramped == IF Defined(dimmed.wetGainNode)
                              THEN [dimmed EXCEPT !.wetGainNode = GainNode(WetMaximum)]
                              ELSE dimmed
                    toned == IF ramped.audioContext
                             THEN [ramped EXCEPT !.tones = @ + 1]
                             ELSE ramped
                IN SetTimeout(toned, "step3", Step3Delay, NULL)
    IN With(On, s0)

\* The callback scheduled at src/script.js:601 (lines 602-642).
Step3Callback(s0) ==
    LET On(st) ==
        LET texted == ShowStoryText(st, EPILOGUE, EpilogueDuration)
            overlaid == [texted EXCEPT !.fadeOverlay = "transparent"]
            fading == SetTimeout(overlaid, "fade", FadeDelay, NULL)
        IN SetTimeout(fading, "restart", RestartDelay, NULL)
    IN With(On, s0)

\* src/script.js:618-620: opacity '1' under transition 'opacity 8s'.
FadeCallback(s0) ==
    LET On(st) ==
        [st EXCEPT !.fadeOverlay = "fading", !.fadeStart = st.now]
    IN With(On, s0)

\* src/script.js:623-642.
RestartCallback(s0) ==
    LET On(st) ==
        [st EXCEPT !.restartButtons = @ + 1]
    IN With(On, s0)

\* Variant: the intro is shown whatever is displayed.
IntroCallbackUnguarded(s0) ==
    LET On(st) ==
        ShowStoryText(st, INTRO, DefaultDuration)
    IN With(On, s0)

\* src/script.js:878-882.
IntroCallback(s0) ==
    LET On(st) ==
        IF st.currentStoryState = NULL
        THEN ShowStoryText(st, INTRO, DefaultDuration)
        ELSE st
    IN With(On, s0)

(* ---------------- updateStory (src/script.js:429-467) ------------------ *)
\* Variant: without the re-entrancy guard of lines 434-436.
UpdateStoryNoReentrancyGuard(s0, distanceToOrb, lives) ==
    LET On(st) ==
        IF st.hasCompletedGame THEN st
        ELSE IF distanceToOrb < TriggerDistance
        THEN IF /\ st.currentStoryState # TOUCH
                /\ st.currentStoryState # TRANSFORMATION
                /\ st.currentStoryState # EPILOGUE
             THEN TriggerTransformation(st, lives)
             ELSE st
        ELSE IF distanceToOrb < VeryCloseDistance
        THEN IF st.currentStoryState # VERY_CLOSE
             THEN ShowStoryText(st, VERY_CLOSE, DefaultDuration)
             ELSE st
        ELSE IF distanceToOrb < ApproachingDistance
        THEN IF st.currentStoryState # APPROACHING
             THEN ShowStoryText(st, APPROACHING, DefaultDuration)
             ELSE st
        ELSE IF distanceToOrb < IntroDistance
        THEN IF st.currentStoryState = NULL
             THEN ShowStoryText(st, INTRO, DefaultDuration)
             ELSE st
        ELSE st
    IN With(On, s0)

\* Variant: the completion latch guards the trigger branch only.
UpdateStoryLatchOnTriggerOnly(s0, distanceToOrb, lives) ==
    LET On(st) ==
        IF st.currentStoryState # NULL /\ distanceToOrb >= TriggerDistance
        THEN st
        ELSE IF distanceToOrb < TriggerDistance
        THEN IF /\ ~st.hasCompletedGame
                /\ st.currentStoryState # TOUCH
                /\ st.currentStoryState # TRANSFORMATION
                /\ st.currentStoryState # EPILOGUE
             THEN TriggerTransformation(st, lives)
             ELSE st
        ELSE IF distanceToOrb < VeryCloseDistance
        THEN IF st.currentStoryState # VERY_CLOSE
             THEN ShowStoryText(st, VERY_CLOSE, DefaultDuration)
             ELSE st
        ELSE IF distanceToOrb < ApproachingDistance
        THEN IF st.currentStoryState # APPROACHING
             THEN ShowStoryText(st, APPROACHING, DefaultDuration)
             ELSE st
        ELSE IF distanceToOrb < IntroDistance
        THEN IF st.currentStoryState = NULL
             THEN ShowStoryText(st, INTRO, DefaultDuration)
             ELSE st
        ELSE st
    IN With(On, s0)

\* Variant: the ladder is walked from the farthest threshold to the closest.
UpdateStoryFarthestFirst(s0, distanceToOrb, lives) ==
    LET On(st) ==
        IF st.hasCompletedGame THEN st
        ELSE IF st.currentStoryState # NULL /\ distanceToOrb >= TriggerDistance
        THEN st
        ELSE IF distanceToOrb < TriggerDistance
        THEN IF /\ st.currentStoryState # TOUCH
                /\ st.currentStoryState # TRANSFORMATION
                /\ st.currentStoryState # EPILOGUE
             THEN TriggerTransformation(st, lives)
             ELSE st
        ELSE IF distanceToOrb < IntroDistance
        THEN IF st.currentStoryState = NULL
             THEN ShowStoryText(st, INTRO, DefaultDuration)
             ELSE st
        ELSE IF distanceToOrb < ApproachingDistance
        THEN IF st.currentStoryState # APPROACHING
             THEN ShowStoryText(st, APPROACHING, DefaultDuration)
             ELSE st
        ELSE IF distanceToOrb < VeryCloseDistance
        THEN IF st.currentStoryState # VERY_CLOSE
             THEN ShowStoryText(st, VERY_CLOSE, DefaultDuration)
             ELSE st
        ELSE st
    IN With(On, s0)

\* Variant: the re-entrancy guard does not look at the distance.
UpdateStoryGuardAnyDistance(s0, distanceToOrb, lives) ==
    LET On(st) ==
        IF st.hasCompletedGame THEN st
        ELSE IF st.currentStoryState # NULL
        THEN st
        ELSE IF distanceToOrb < TriggerDistance
        THEN IF /\ st.currentStoryState # TOUCH
                /\ st.currentStoryState # TRANSFORMATION
                /\ st.currentStoryState # EPILOGUE
             THEN TriggerTransformation(st, lives)
             ELSE st
        ELSE IF distanceToOrb < VeryCloseDistance
        THEN IF st.currentStoryState # VERY_CLOSE
             THEN ShowStoryText(st, VERY_CLOSE, DefaultDuration)
             ELSE st
        ELSE IF distanceToOrb < ApproachingDistance
        THEN IF st.currentStoryState # APPROACHING
             THEN ShowStoryText(st, APPROACHING, DefaultDuration)
             ELSE st
        ELSE IF distanceToOrb < IntroDistance
        THEN IF st.currentStoryState = NULL
             THEN ShowStoryText(st, INTRO, DefaultDuration)
             ELSE st
        ELSE st
    IN With(On, s0)

UpdateStory(s0, distanceToOrb, lives) ==
    LET On(st) ==
        IF st.hasCompletedGame THEN st
        ELSE IF st.currentStoryState # NULL /\ distanceToOrb >= TriggerDistance
        THEN st
        ELSE IF distanceToOrb < TriggerDistance
        THEN IF /\ st.currentStoryState # TOUCH
                /\ st.currentStoryState # TRANSFORMATION
                /\ st.currentStoryState # EPILOGUE
             THEN TriggerTransformation(st, lives)
             ELSE st
        ELSE IF distanceToOrb < VeryCloseDistance
        THEN IF st.currentStoryState # VERY_CLOSE
             THEN ShowStoryText(st, VERY_CLOSE, DefaultDuration)
             ELSE st
        ELSE IF distanceToOrb < ApproachingDistance
        THEN IF st.currentStoryState # APPROACHING
             THEN ShowStoryText(st, APPROACHING, DefaultDuration)
             ELSE st
        ELSE IF distanceToOrb < IntroDistance
        THEN IF st.currentStoryState = NULL
             THEN ShowStoryText(st, INTRO, DefaultDuration)
             ELSE st
        ELSE st
    IN With(On, s0)

(* ---------------- animate (src/script.js:719-874) ---------------------- *)
\* The proximity branch (src/script.js:755-794); orb.visible is read after
\* updateStory has run.
ProximityEffects(s0, distanceToOrb) ==
    LET On(st) ==
        IF distanceToOrb < maxDistance /\ st.orbVisible
        THEN IF st.audioContext
             THEN UpdateAudioEffects(st, 100 - distanceToOrb)
             ELSE st
        ELSE IF st.orbVisible
        THEN IF st.audioContext THEN UpdateAudioEffects(st, 0) ELSE st
        ELSE st
    IN With(On, s0)

Animate(s0, distanceToOrb, delta, lives) ==
    LET On(st) ==
        LET storied == UpdateStory(st, distanceToOrb, lives)
            heard == ProximityEffects(storied, distanceToOrb)
        IN IF storied.orbVisible /\ storied.audioContext /\ NodesMissing(storied)
           THEN heard
           ELSE [heard EXCEPT !.effects = UpdateEffects(@, 1, delta)]
    IN With(On, s0)

(* ---------------- initial state ---------------------------------------- *)
\* The state the declarations of src/script.js leave, before the top-level
\* animate() call of line 876.
InitState ==
    [started |-> FALSE, now |-> 0, timers |-> <<>>,
     currentStoryState |-> NULL, storyTimeout |-> 0,
     hasCompletedGame |-> FALSE, display |-> "none", textContent |-> "",
     orbVisible |-> TRUE, audioContext |-> FALSE,
     masterGainNode |-> UndefinedNode, wetGainNode |-> UndefinedNode,
     dryGainNode |-> UndefinedNode, tones |-> 0,
     ambientIntensity |-> AmbientInitial, pointIntensity |-> PointInitial,
     effects |-> <<>>, fadeOverlay |-> "absent", fadeStart |-> -1,
     restartButtons |-> 0, thrown |-> FALSE,
     triggerCount |-> 0, triggerTime |-> -1,
     observing |-> FALSE, shown |-> <<>>]

InitWith(recording) ==
    /\ started = FALSE /\ now = 0 /\ timers = <<>>
    /\ currentStoryState = NULL /\ storyTimeout = 0
    /\ hasCompletedGame = FALSE /\ display = "none" /\ textContent = ""
    /\ orbVisible = TRUE /\ audioContext = FALSE
    /\ masterGainNode = UndefinedNode /\ wetGainNode = UndefinedNode
    /\ dryGainNode = UndefinedNode /\ tones = 0
    /\ ambientIntensity = AmbientInitial /\ pointIntensity = PointInitial
    /\ effects = <<>> /\ fadeOverlay = "absent" /\ fadeStart = -1
    /\ restartButtons = 0 /\ thrown = FALSE
    /\ triggerCount = 0 /\ triggerTime = -1
    /\ observing = recording /\ shown = <<>>
    /\ prevDistance = -1

Init == InitWith(FALSE)

(* ---------------- actions ---------------------------------------------- *)
Lives == [1..ParticleCount -> LifeChoices]

\* src/script.js:876-882: the first animate() call, then the intro timer.
Startup(distanceToOrb, delta, lives) ==
    /\ ~started
    /\ \E r \in {SetTimeout(Animate(State, distanceToOrb, delta, lives),
                           "intro", IntroDelay, NULL)} :
            Assign([r EXCEPT !.started = TRUE])

\* One frame of the render loop.
Tick(distanceToOrb, delta, lives) ==
    /\ started
    /\ \E r \in {Animate(State, distanceToOrb, delta, lives)} : Assign(r)

\* Timers that have come due, and the one the host runs next: the earliest
\* due, the earliest registered among equals.
DueTimers == {i \in 1..Len(timers) : timers[i].due <= now}

NextTimer ==
    CHOOSE i \in DueTimers :
        \A j \in DueTimers :
            \/ timers[i].due < timers[j].due
            \/ (timers[i].due = timers[j].due /\ i <= j)

Callback(s0, kind) ==
    LET On(st) ==
        CASE kind = "hide"    -> HideCallback(st)
          [] kind = "intro"   -> IntroCallback(st)
          [] kind = "step2"   -> Step2Callback(st)
          [] kind = "step3"   -> Step3Callback(st)
          [] kind = "fade"    -> FadeCallback(st)
          [] kind = "restart" -> RestartCallback(st)
    IN With(On, s0)

FireTimer(kind) ==
    /\ started
    /\ DueTimers # {}
    /\ timers[NextTimer].kind = kind
    /\ \E r \in {Callback([State EXCEPT !.timers = RemoveAt(@, NextTimer)], kind)} :
            Assign(r)

\* The callback of any timer that has come due runs, whatever its place
\* among the timers due at the same instant.
FireTimerAt(i) ==
    /\ started
    /\ i \in DueTimers
    /\ \E r \in {Callback([State EXCEPT !.timers = RemoveAt(@, i)],
                          timers[i].kind)} :
            Assign(r)

\* The wall clock moves on by a step, to the next timer at most.
ClockMoves ==
    LET target == now + TimeStep
        dues == {timers[i].due : i \in 1..Len(timers)}
        next == IF \E t \in dues : t < target
                THEN CHOOSE t \in dues : \A u \in dues : t <= u
                ELSE target
    IN Assign([State EXCEPT !.now = next])

\* The wall clock moves on, to the next timer at most; before the trigger it
\* stops at limit, after it when no timer is left.
AdvanceWithin(limit) ==
    /\ started
    /\ DueTimers = {}
    /\ IF hasCompletedGame THEN Len(timers) > 0 ELSE now < limit
    /\ ClockMoves

\* The wall clock moves on as long as a timer is pending, and up to limit.
AdvanceDraining(limit) ==
    /\ started
    /\ DueTimers = {}
    /\ Len(timers) > 0 \/ now < limit
    /\ ClockMoves

Advance == AdvanceWithin(MaxTime)

\* The document's click listener (src/script.js:274-283); isLocked is the
\* pointer-lock state of the controls.
Click(isLocked) ==
    /\ started
    /\ IF ~isLocked /\ ~audioContext
       THEN Assign(InitAudio(State))
       ELSE UNCHANGED <<started, now, timers, currentStoryState, storyTimeout,
                hasCompletedGame, display, textContent, orbVisible,
                audioContext, masterGainNode, wetGainNode, dryGainNode, tones,
                ambientIntensity, pointIntensity, effects, fadeOverlay,
                fadeStart, restartButtons, thrown, triggerCount, triggerTime,
                observing, shown>>

\* The restart button's click listener (src/script.js:637-639): the page
\* reloads and the script starts again.
Reload ==
    /\ restartButtons > 0
    /\ Assign([InitState EXCEPT !.observing = observing])

\* The inputs a frame can read: Math.random() is drawn only where a shatter
\* group is created, behind the hasCompletedGame guard, and delta decides
\* the outcome only of the update of a shatter group; an input that does not
\* bear on the frame's outcome is fixed.
FirstDelta == CHOOSE delta \in Deltas : \A other \in Deltas : delta <= other
FirstLives == [i \in 1..ParticleCount |->
                 CHOOSE l \in LifeChoices : \A m \in LifeChoices : l <= m]

FrameInputs(delta, lives) ==
    /\ lives = FirstLives \/ ~hasCompletedGame
    /\ \/ delta = FirstDelta
       \/ ~hasCompletedGame
       \/ \E i \in 1..Len(effects) : effects[i].kind = "shatter"

Next ==
    \/ \E d \in Distances, delta \in Deltas, lives \in Lives :
            Startup(d, delta, lives) /\ UNCHANGED prevDistance
    \/ \E d \in Distances, delta \in Deltas, lives \in Lives :
            /\ FrameInputs(delta, lives)
            /\ Tick(d, delta, lives) /\ UNCHANGED prevDistance
    \/ \E kind \in {"hide", "intro", "step2", "step3", "fade", "restart"} :
            FireTimer(kind) /\ UNCHANGED prevDistance
    \/ Advance /\ UNCHANGED prevDistance
    \/ \E isLocked \in BOOLEAN : Click(isLocked) /\ UNCHANGED prevDistance
    \/ Reload /\ UNCHANGED prevDistance

Spec == Init /\ [][Next]_vars

TypeOK ==
    /\ started \in BOOLEAN
    /\ now \in Nat
    /\ currentStoryState \in storyStates \cup {NULL}
    /\ hasCompletedGame \in BOOLEAN
    /\ display \in {"none", "block"}

(* ---------------- scenario specifications ------------------------------ *)
\* The environment steps every specification shares.
TimerFires == \E kind \in {"hide", "intro", "step2", "step3", "fade", "restart"} :
                  FireTimer(kind)
AnyClick == \E isLocked \in BOOLEAN : Click(isLocked)

\* A frame of the render loop, with the inputs it can read.
FrameStep ==
    \E d \in Distances, delta \in Deltas, lives \in Lives :
        FrameInputs(delta, lives) /\ Tick(d, delta, lives)

\* Readings that fall from 10 to 0 through every band, one per frame; a
\* frame reads the reading of the frame before it or the next one down.
MonoReadings == <<100, 90, 60, 40, 30, 15, 12, 0>>

IndexOf(readings, d) == CHOOSE i \in 1..Len(readings) : readings[i] = d

MonoFollowers(d) ==
    IF \A i \in 1..Len(MonoReadings) : MonoReadings[i] # d THEN {}
    ELSE LET i == IndexOf(MonoReadings, d)
         IN {MonoReadings[j] : j \in {i, i + 1} \cap (1..Len(MonoReadings))}

InitObserved == InitWith(TRUE)

NextMono ==
    \/ \E delta \in Deltas, lives \in Lives :
            /\ Startup(MonoReadings[1], delta, lives)
            /\ prevDistance' = MonoReadings[1]
    \/ \E d \in MonoFollowers(prevDistance), delta \in Deltas, lives \in Lives :
            /\ FrameInputs(delta, lives)
            /\ Tick(d, delta, lives)
            /\ prevDistance' = d
    \/ TimerFires /\ UNCHANGED prevDistance
    \/ Advance /\ UNCHANGED prevDistance
    \/ AnyClick /\ UNCHANGED prevDistance
    \/ Reload /\ prevDistance' = -1

SpecMono == InitObserved /\ [][NextMono]_vars

\* The end-to-end readings of the specification, one per frame.
ScenarioReadings == <<120, 90, 70, 50, 30, 12>>

NextScenario ==
    \/ \E delta \in Deltas, lives \in Lives :
            /\ Startup(ScenarioReadings[1], delta, lives)
            /\ prevDistance' = ScenarioReadings[1]
    \/ \E delta \in Deltas, lives \in Lives :
            /\ started
            /\ IndexOf(ScenarioReadings, prevDistance) < Len(ScenarioReadings)
            /\ FrameInputs(delta, lives)
            /\ LET d == ScenarioReadings[IndexOf(ScenarioReadings, prevDistance) + 1]
               IN Tick(d, delta, lives) /\ prevDistance' = d
    \/ TimerFires /\ UNCHANGED prevDistance
    \/ Advance /\ UNCHANGED prevDistance
    \/ AnyClick /\ UNCHANGED prevDistance
    \/ Reload /\ prevDistance' = -1

SpecScenario == InitObserved /\ [][NextScenario]_vars

\* Readings of a player who comes close, retreats through the bands, comes
\* back and touches the orb, and then walks through the bands once more.
RetreatMaxTime == 90
RetreatReadings == <<30, 50, 90, 20, 12, 35, 55, 95>>

NextRetreat ==
    \/ \E delta \in Deltas, lives \in Lives :
            /\ Startup(RetreatReadings[1], delta, lives)
            /\ prevDistance' = RetreatReadings[1]
    \/ \E delta \in Deltas, lives \in Lives :
            /\ started
            /\ IndexOf(RetreatReadings, prevDistance) < Len(RetreatReadings)
            /\ FrameInputs(delta, lives)
            /\ LET d == RetreatReadings[IndexOf(RetreatReadings, prevDistance) + 1]
               IN Tick(d, delta, lives) /\ prevDistance' = d
    \/ TimerFires /\ UNCHANGED prevDistance
    \/ AdvanceWithin(RetreatMaxTime) /\ UNCHANGED prevDistance
    \/ AnyClick /\ UNCHANGED prevDistance
    \/ Reload /\ prevDistance' = -1

SpecRetreat == InitObserved /\ [][NextRetreat]_vars

\* Frames stop at MaxTime unless the game is completed (a page left in the
\* background gets no frames), while the clock runs on until every pending
\* timer has come due and run.
NextDraining ==
    \/ \E d \in Distances, delta \in Deltas, lives \in Lives :
            Startup(d, delta, lives) /\ UNCHANGED prevDistance
    \/ /\ now < MaxTime \/ hasCompletedGame
       /\ FrameStep /\ UNCHANGED prevDistance
    \/ TimerFires /\ UNCHANGED prevDistance
    \/ AdvanceDraining(MaxTime) /\ UNCHANGED prevDistance
    \/ AnyClick /\ UNCHANGED prevDistance
    \/ Reload /\ UNCHANGED prevDistance

FairDraining ==
    /\ Init /\ [][NextDraining]_vars
    /\ WF_vars(AdvanceDraining(MaxTime) /\ UNCHANGED prevDistance)
    /\ WF_vars(TimerFires /\ UNCHANGED prevDistance)

\* Timers that come due at the same instant run in any order.
NextAnyOrder ==
    \/ \E d \in Distances, delta \in Deltas, lives \in Lives :
            Startup(d, delta, lives) /\ UNCHANGED prevDistance
    \/ FrameStep /\ UNCHANGED prevDistance
    \/ \E i \in DueTimers : FireTimerAt(i) /\ UNCHANGED prevDistance
    \/ Advance /\ UNCHANGED prevDistance
    \/ AnyClick /\ UNCHANGED prevDistance
    \/ Reload /\ UNCHANGED prevDistance

SpecAnyOrder == Init /\ [][NextAnyOrder]_vars

\* Time passes and every timer that has come due is run.
FairSpec ==
    /\ Spec
    /\ WF_vars(Advance /\ UNCHANGED prevDistance)
    /\ WF_vars(TimerFires /\ UNCHANGED prevDistance)

(* ---------------- C1 --------------------------------------------------- *)
HideTimers == {i \in 1..Len(timers) : timers[i].kind = "hide"}
TimersOfKind(kind) == {i \in 1..Len(timers) : timers[i].kind = kind}
GroupsOfKind(kind) == {i \in 1..Len(effects) : effects[i].kind = kind}

\* C1: the body of triggerTransformation executes at most once per process
\* lifetime: the trigger is counted at most once, and there is never more
\* than one shatter burst, one step-2 timer or one step-3 timer of the chain.
C1_TriggerAtMostOnce ==
    /\ triggerCount <= 1
    /\ Cardinality(GroupsOfKind("shatter")) <= 1
    /\ Cardinality(TimersOfKind("step2")) <= 1
    /\ Cardinality(TimersOfKind("step3")) <= 1

\* The chain has run to its end after one trigger, and nothing is displayed,
\* so that any later tick below the trigger distance meets no phase guard.
C1_Witness ==
    /\ triggerCount = 1
    /\ restartButtons = 1
    /\ currentStoryState = NULL
    /\ timers = <<>>

(* ---------------- C2 --------------------------------------------------- *)
\* C2: in every reachable state, hasCompletedGame implies that the current
\* story state is touch, transformation, epilogue or null.
C2_CompletedPhases ==
    hasCompletedGame =>
        currentStoryState \in {TOUCH, TRANSFORMATION, EPILOGUE, NULL}

\* The startup intro timer has fired after a trigger that preceded it.
C2_Witness ==
    /\ hasCompletedGame
    /\ triggerTime >= 0 /\ triggerTime < IntroDelay
    /\ now >= IntroDelay
    /\ TimersOfKind("intro") = {}
    /\ currentStoryState = TOUCH

(* ---------------- C3 --------------------------------------------------- *)
AnyTick == FrameStep

HideTimerRecords == {timers[i] : i \in HideTimers}

\* C3: once hasCompletedGame is true, a frame (updateStory with any distance)
\* leaves the current story state, the displayed text, the stored handle and
\* the pending hide timers unchanged; the current story state then changes
\* only when a hide timer, the step-2 timer or the step-3 timer fires.
C3_NoStoryChangeAfterCompletion ==
    [][ /\ (hasCompletedGame /\ AnyTick) =>
            /\ currentStoryState' = currentStoryState
            /\ display' = display
            /\ textContent' = textContent
            /\ storyTimeout' = storyTimeout
            /\ HideTimerRecords' = HideTimerRecords
        /\ (hasCompletedGame /\ hasCompletedGame'
               /\ currentStoryState' # currentStoryState) =>
            \/ FireTimer("hide")
            \/ FireTimer("step2")
            \/ FireTimer("step3") ]_vars

\* After completion, no state displayed and no timer left: a frame here
\* would reach the threshold ladder if the latch did not stop it.
C3_Witness ==
    /\ hasCompletedGame
    /\ currentStoryState = NULL
    /\ display = "none"
    /\ restartButtons = 1

(* ---------------- C4 --------------------------------------------------- *)
\* C4: updateStory is idempotent: in every reachable state and for every
\* distance, a second call with the same distance returns the state the
\* first call returned (no further display, timer restart or trigger); and
\* showStoryText of the state it has just shown changes nothing.
C4_EvaluateIdempotent ==
    /\ \A d \in Distances, lives \in Lives :
          LET once == UpdateStory(State, d, lives)
          IN UpdateStory(once, d, lives) = once
    /\ \A state \in storyStates, duration \in {DefaultDuration, EpilogueDuration} :
          LET once == ShowStoryText(State, state, duration)
          IN ShowStoryText(once, state, duration) = once

\* A state in which a first call displays a state, and one in which it
\* triggers: nothing displayed before the trigger.
C4_Witness ==
    /\ started
    /\ ~hasCompletedGame
    /\ currentStoryState = NULL
    /\ storyTimeout # 0
    /\ UpdateStory(State, 30, FirstLives).currentStoryState = VERY_CLOSE
    /\ UpdateStory(State, 12, FirstLives).hasCompletedGame

(* ---------------- C5 --------------------------------------------------- *)
NarrativeOrder == <<INTRO, APPROACHING, VERY_CLOSE, TOUCH, TRANSFORMATION, EPILOGUE>>
Rank(state) == IndexOf(NarrativeOrder, state)

\* This step displays a state (records it and makes it current).
Displays(state) ==
    /\ shown' = Append(shown, state)
    /\ currentStoryState' = state
    /\ display' = "block"

\* C5 as stated: for readings falling from 10 to 0 the states displayed so
\* far are always the first few of intro, approaching, very_close, touch,
\* transformation, epilogue: each at most once, in order, none skipped.
C5_ExactSequence ==
    \E n \in 0..Len(NarrativeOrder) : shown = SubSeq(NarrativeOrder, 1, n)

\* C5 as the code has it: for readings falling from 10 to 0 the displays
\* never go back in the narrative order, touch, transformation and epilogue
\* are shown at most once each and none of the three is skipped, and no
\* state is displayed again while it is showing; intro, approaching and
\* very_close may be skipped (the re-entrancy guard) or shown again once
\* hidden.
C5_OrderedDisplays ==
    /\ [](/\ \A i, j \in 1..Len(shown) :
                i < j => Rank(shown[i]) <= Rank(shown[j])
          /\ \A i, j \in 1..Len(shown) :
                (i < j /\ shown[i] \in TerminalStates) => shown[i] # shown[j]
          /\ \A i \in 1..Len(shown) :
                /\ shown[i] = TRANSFORMATION => (i > 1 /\ shown[i - 1] = TOUCH)
                /\ shown[i] = EPILOGUE => (i > 1 /\ shown[i - 1] = TRANSFORMATION)
          /\ (hasCompletedGame = (\E i \in 1..Len(shown) : shown[i] = TOUCH)))
    /\ [][Len(shown') > Len(shown) =>
            /\ Displays(shown'[Len(shown')])
            /\ currentStoryState' # currentStoryState]_vars

\* The readings have reached 0, the chain has shown its epilogue, and
\* approaching was skipped while intro was showing.
C5_Witness ==
    /\ prevDistance = 0
    /\ Len(shown) >= 3
    /\ shown[1] = INTRO
    /\ shown[Len(shown)] = EPILOGUE
    /\ \A i \in 1..Len(shown) : shown[i] # APPROACHING

(* ---------------- C6 --------------------------------------------------- *)
\* The frame that reads reading d of the scenario.
Reads(d) == prevDistance' = d /\ prevDistance # d

\* C6 as stated: reading 9 leaves intro displayed, reading 7 approaching,
\* reading 5 very_close, and reading 1.2 completes the game.
C6_ScenarioAsStated ==
    [][ /\ Reads(90) => currentStoryState' = INTRO
        /\ Reads(70) => currentStoryState' = APPROACHING
        /\ Reads(50) => currentStoryState' = VERY_CLOSE
        /\ Reads(12) => (hasCompletedGame' /\ triggerCount' = 1) ]_vars

NoDisplay ==
    UNCHANGED <<shown, currentStoryState, display, textContent, storyTimeout>>

\* C6 as the code has it: a reading of the scenario displays the state of
\* its own band (12: none; 9 and 7: intro; 5: approaching; 3: very_close),
\* and only when no state is displayed at that frame, otherwise nothing; the
\* reading 1.2 triggers the transformation, which replaces whatever is
\* displayed by touch and sets hasCompletedGame exactly once.
C6_ScenarioByBand ==
    [][ /\ Reads(120) => NoDisplay
        /\ Reads(90) => IF currentStoryState = NULL THEN Displays(INTRO)
                        ELSE NoDisplay
        /\ Reads(70) => IF currentStoryState = NULL THEN Displays(INTRO)
                        ELSE NoDisplay
        /\ Reads(50) => IF currentStoryState = NULL THEN Displays(APPROACHING)
                        ELSE NoDisplay
        /\ Reads(30) => IF currentStoryState = NULL THEN Displays(VERY_CLOSE)
                        ELSE NoDisplay
        /\ Reads(12) => /\ ~hasCompletedGame /\ hasCompletedGame'
                        /\ triggerCount = 0 /\ triggerCount' = 1
                        /\ Displays(TOUCH)
        /\ triggerCount' <= 1 ]_vars

\* All six readings fed in quick succession: intro at 9, nothing at 7, 5
\* and 3, the trigger at 1.2.
C6_Witness ==
    /\ prevDistance = 12
    /\ hasCompletedGame
    /\ shown = <<INTRO, TOUCH>>
    /\ now = 0

(* ---------------- C7 --------------------------------------------------- *)
\* The clock is in [triggerTime + from, triggerTime + to).
Since(from, to) ==
    /\ triggerTime >= 0
    /\ now >= triggerTime + from
    /\ now < triggerTime + to

\* No hide or chain timer has come due without having run yet.
ChainSettled ==
    \A i \in DueTimers : timers[i].kind \notin {"hide", "step2", "step3"}

Showing(state) ==
    /\ display = "block"
    /\ textContent = storyText(state)
    /\ currentStoryState = state

\* C7: with the trigger at T0 and timers run when they come due, the text
\* is that of touch throughout [T0, T0+3000), of transformation throughout
\* [T0+3000, T0+8000) and of epilogue throughout [T0+8000, T0+16000).
C7_TimerChainText ==
    ChainSettled =>
        /\ Since(0, Step2Delay) => Showing(TOUCH)
        /\ Since(Step2Delay, Step2Delay + Step3Delay) => Showing(TRANSFORMATION)
        /\ Since(Step2Delay + Step3Delay,
                 Step2Delay + Step3Delay + EpilogueDuration) => Showing(EPILOGUE)

\* Well inside the epilogue interval, after a trigger that came while the
\* intro timer was still pending.
C7_Witness ==
    /\ Since(Step2Delay + Step3Delay + 1,
             Step2Delay + Step3Delay + EpilogueDuration)
    /\ triggerTime < IntroDelay
    /\ ChainSettled
    /\ Showing(EPILOGUE)

(* ---------------- C8 --------------------------------------------------- *)
\* The opacity transition of the overlay has run its 8 s.
FadeCompleted ==
    /\ fadeOverlay = "fading"
    /\ now >= fadeStart + FadeDuration

\* C8: the restart button appears at T0+16100, not before the fade to
\* white, begun 100 ms after the epilogue step, has completed.
C8_RestartAfterFade ==
    restartButtons > 0 =>
        /\ now >= triggerTime + Step2Delay + Step3Delay + FadeDelay + FadeDuration
        /\ FadeCompleted

(* ---------------- C9 --------------------------------------------------- *)
\* C9: once the transformation is triggered, and provided time passes and
\* due timers run, the restart button is eventually presented, whatever the
\* later readings and clicks.
C9_ChainCompletes ==
    hasCompletedGame ~> (restartButtons > 0)

\* The restart button is there, one trigger after startup.
C9_Witness ==
    /\ hasCompletedGame
    /\ restartButtons = 1
    /\ fadeOverlay = "fading"

(* ---------------- C10 -------------------------------------------------- *)
\* The state without its audio part.
Visual(st) ==
    [st EXCEPT !.audioContext = FALSE, !.masterGainNode = UndefinedNode,
               !.wetGainNode = UndefinedNode, !.dryGainNode = UndefinedNode,
               !.tones = 0]

SameAudio(st, r) ==
    /\ r.audioContext = st.audioContext
    /\ r.masterGainNode = st.masterGainNode
    /\ r.wetGainNode = st.wetGainNode
    /\ r.dryGainNode = st.dryGainNode
    /\ r.tones = st.tones

\* C10: no handler throws, and the reverb ramp finds audioContext defined
\* whenever wetGainNode is; while audio is not initialised, no gain node is
\* defined, a frame and the pending step-2 callback leave the audio part
\* untouched, and what they do to the rest of the state is what they do
\* when audio is initialised, step 2 scheduling step 3 as ever.
C10_AudioUnavailable ==
    /\ ~thrown
    /\ Defined(wetGainNode) => audioContext
    /\ ~audioContext =>
        /\ ~Defined(masterGainNode) /\ ~Defined(wetGainNode)
        /\ ~Defined(dryGainNode)
        /\ \A d \in Distances, delta \in Deltas, lives \in Lives :
              FrameInputs(delta, lives) =>
                LET r == Animate(State, d, delta, lives)
                IN /\ SameAudio(State, r)
                   /\ ~r.thrown
                   /\ Visual(r) = Visual(Animate(InitAudio(State), d, delta, lives))
        /\ TimersOfKind("step2") # {} =>
           LET r == Step2Callback(State)
           IN /\ SameAudio(State, r)
              /\ ~r.thrown
              /\ Visual(r) = Visual(Step2Callback(InitAudio(State)))
              /\ \E i \in 1..Len(r.timers) :
                    /\ r.timers[i].kind = "step3"
                    /\ r.timers[i].due = now + Step3Delay

\* Step 2 has run without audio: the text, the swirl and the dimmed lights
\* are there and step 3 is scheduled.
C10_Witness ==
    /\ ~audioContext
    /\ currentStoryState = TRANSFORMATION
    /\ GroupsOfKind("transformation") # {}
    /\ ambientIntensity = AmbientDimmed
    /\ pointIntensity = PointDimmed
    /\ TimersOfKind("step3") # {}
    /\ tones = 0

(* ---------------- C11 -------------------------------------------------- *)
\* C11: the master volume target the proximity update sets is
\* max(0, 0.7 - 0.9 p), p = 1 - distance / 10, and is never negative: in
\* every reachable state the target is not below 0, and a frame that reads
\* a distance below 10 with the orb visible and audio initialised sets it to
\* that value.
C11_VolumeClamped ==
    /\ Defined(masterGainNode) => masterGainNode.gain >= 0
    /\ \A d \in Distances :
          LET r == Animate(State, d, FirstDelta, FirstLives)
          IN (d < maxDistance /\ r.orbVisible /\ r.audioContext /\ ~r.thrown) =>
                r.masterGainNode.gain = Max(0, 700 - 9 * (100 - d))

(* ---------------- C12 -------------------------------------------------- *)
\* Frames keep running, besides the clock and the timers.
FairFrames ==
    /\ FairSpec
    /\ WF_vars(FrameStep /\ UNCHANGED prevDistance)

\* C12: provided frames keep running, every group the transformation
\* sequence spawns, the shatter burst and the transformation swirl alike, is
\* eventually removed from the scene.
C12_GroupsSelfRemove ==
    /\ GroupsOfKind("shatter") # {} ~> GroupsOfKind("shatter") = {}
    /\ GroupsOfKind("transformation") # {} ~> GroupsOfKind("transformation") = {}

(* ---------------- C13 -------------------------------------------------- *)
ShatterParticles(groups) ==
    UNION {{groups[i].particles[k] : k \in 1..Len(groups[i].particles)} :
              i \in {j \in 1..Len(groups) : groups[j].kind = "shatter"}}

\* C13: a shatter particle in the scene has life left, and its opacity is
\* that of its creation or max(0, life / 3) > 0; the update that brings its
\* life to 0 or below leaves it opacity 0, any other a positive opacity
\* life / 3; and a frame removes exactly the particles whose life its delta
\* brings to 0 or below, the others staying with their life reduced by delta.
C13_ParticleExpiry ==
    /\ [](/\ \A p \in ShatterParticles(effects) :
                /\ p.life > 0
                /\ p.opacity = OpacityOne \/ p.opacity = p.life * 20
                /\ p.opacity > 0
          /\ \A i \in GroupsOfKind("shatter"), delta \in Deltas :
                LET aged == AgeShatterParticles(effects[i], delta)
                IN \A k \in 1..Len(aged) :
                      IF aged[k].life <= 0 THEN aged[k].opacity = 0
                      ELSE aged[k].opacity = aged[k].life * 20 /\ aged[k].opacity > 0)
    /\ [][(GroupsOfKind("shatter") # {} /\ AnyTick) =>
            \E delta \in Deltas :
                \A p \in ShatterParticles(effects) :
                    LET after == {q \in ShatterParticles(effects') : q.id = p.id}
                    IN IF p.life - delta <= 0 THEN after = {}
                       ELSE after = {[id |-> p.id, life |-> p.life - delta,
                                      opacity |-> (p.life - delta) * 20]}]_vars

\* One particle of the burst has expired and been removed, the other is
\* still fading.
C13_Witness ==
    /\ GroupsOfKind("shatter") # {}
    /\ \E p \in ShatterParticles(effects) :
          /\ ShatterParticles(effects) = {p}
          /\ p.life = 10
          /\ p.opacity = 200

(* ---------------- C14 -------------------------------------------------- *)
\* The hide delay showStoryText is called with for a state.
DurationOf(state) ==
    CASE state = TOUCH          -> TouchDuration
      [] state = TRANSFORMATION -> TransformationDuration
      [] state = EPILOGUE       -> EpilogueDuration
      [] OTHER                  -> DefaultDuration

\* C14: at most one hide timer is pending in every reachable state, and it
\* is the one storyTimeout names, started for the state displayed; and every
\* step that displays a new state (a frame, the trigger, a chain step or the
\* intro timer) leaves exactly one hide timer pending, its own, the one
\* that was pending before being cancelled.
C14_OneHideTimer ==
    /\ [](/\ Cardinality(HideTimers) <= 1
          /\ \A i \in HideTimers :
                /\ timers[i].id = storyTimeout
                /\ timers[i].state = currentStoryState)
    /\ [][(currentStoryState' # currentStoryState /\ currentStoryState' # NULL) =>
            /\ Cardinality(HideTimers') = 1
            /\ \A i \in HideTimers' :
                  /\ timers'[i].state = currentStoryState'
                  /\ timers'[i].due = now + DurationOf(currentStoryState')
                  /\ timers'[i].id = storyTimeout'
            /\ HideTimerRecords \cap HideTimerRecords' = {}]_vars

\* The trigger has replaced the state the first frame displayed while that
\* state's hide timer was pending: the touch display holds the third handle
\* issued, after those of the first display and of the startup intro timer,
\* and the only hide timer left is its own.
C14_Witness ==
    /\ currentStoryState = TOUCH
    /\ triggerTime = 10
    /\ now = 10
    /\ storyTimeout = 3
    /\ TimersOfKind("intro") # {}
    /\ HideTimerRecords = {[id |-> 3, due |-> 10 + TouchDuration,
                            kind |-> "hide", state |-> TOUCH]}

(* ---------------- C15 -------------------------------------------------- *)
\* C15: while the game is not completed and a state is displayed,
\* updateStory with any distance >= 1.5 (beyond 10 or in a closer band
\* alike) returns the state unchanged, a frame leaves the display as it is,
\* and the displayed state is replaced or hidden only by its own hide timer
\* firing or by the trigger.
C15_ReentrancyGuard ==
    /\ []((~hasCompletedGame /\ currentStoryState # NULL) =>
            \A d \in Distances, lives \in Lives :
                d >= TriggerDistance => UpdateStory(State, d, lives) = State)
    /\ [][(~hasCompletedGame /\ currentStoryState # NULL
              /\ currentStoryState' # currentStoryState) =>
            \/ /\ FireTimer("hide")
               /\ timers[NextTimer].state = currentStoryState
               /\ currentStoryState' = NULL
            \/ /\ AnyTick
               /\ hasCompletedGame'
               /\ currentStoryState' = TOUCH]_vars

\* A frame at distance 3 has run while the intro was displayed (the master
\* gain target is that of distance 3), and the intro is still displayed.
C15_Witness ==
    /\ ~hasCompletedGame
    /\ currentStoryState = INTRO
    /\ display = "block"
    /\ audioContext
    /\ masterGainNode.gain = 700 - 9 * (100 - 30)

(* ---------------- C16 -------------------------------------------------- *)
TouchHide(st) ==
    [id |-> st.storyTimeout, due |-> st.now + TouchDuration,
     kind |-> "hide", state |-> TOUCH]

\* C16: while the game is not completed, updateStory with a distance below
\* 1.5 triggers whatever state is displayed: it sets hasCompletedGame, makes
\* touch the displayed state and leaves one hide timer pending, that of
\* touch, due 3000 ms later, the hide timer of the replaced state being
\* cancelled; and the step that completes the game is such a frame.
C16_TriggerOverridesGuard ==
    /\ [](~hasCompletedGame =>
            \A d \in Distances, lives \in Lives :
                d < TriggerDistance =>
                    LET r == UpdateStory(State, d, lives)
                    IN /\ r.hasCompletedGame
                       /\ r.currentStoryState = TOUCH
                       /\ r.display = "block"
                       /\ r.textContent = storyText(TOUCH)
                       /\ r.triggerCount = triggerCount + 1
                       /\ {r.timers[i] : i \in {j \in 1..Len(r.timers) :
                                                   r.timers[j].kind = "hide"}}
                              = {TouchHide(r)}
                       /\ TouchHide(r) \notin HideTimerRecords)
    /\ [][(~hasCompletedGame /\ hasCompletedGame') =>
            /\ currentStoryState' = TOUCH
            /\ display' = "block"
            /\ textContent' = storyText(TOUCH)
            /\ HideTimerRecords' = {[id |-> storyTimeout', due |-> now + TouchDuration,
                                     kind |-> "hide", state |-> TOUCH]}
            /\ HideTimerRecords \cap HideTimerRecords' = {}]_vars

\* The trigger has come at 2000 ms, while the first state displayed was
\* still showing with its hide timer pending: touch holds the third handle
\* issued and its hide timer is the only one.
C16_Witness ==
    /\ hasCompletedGame
    /\ currentStoryState = TOUCH
    /\ triggerTime = 20
    /\ now = 20
    /\ storyTimeout = 3
    /\ HideTimerRecords = {[id |-> 3, due |-> 20 + TouchDuration,
                            kind |-> "hide", state |-> TOUCH]}

(* ---------------- C17 -------------------------------------------------- *)
\* The state of the band a distance lies in, the closest threshold first.
BandOf(d) ==
    IF d < TriggerDistance THEN TOUCH
    ELSE IF d < VeryCloseDistance THEN VERY_CLOSE
    ELSE IF d < ApproachingDistance THEN APPROACHING
    ELSE IF d < IntroDistance THEN INTRO
    ELSE NULL

HideRecordsOf(st) ==
    {st.timers[i] : i \in {j \in 1..Len(st.timers) : st.timers[j].kind = "hide"}}

\* C17: while the game is not completed and nothing is displayed,
\* updateStory displays very_close for 1.5 <= distance < 4, approaching for
\* 4 <= distance < 6, intro for 6 <= distance < 10, each with a hide timer
\* due 3000 ms later, and changes nothing for distance >= 10; and from no
\* reachable state does a call with distance 9 followed by a call with
\* distance 3 display approaching.
C17_ThresholdLadder ==
    /\ (~hasCompletedGame /\ currentStoryState = NULL) =>
          \A d \in Distances, lives \in Lives :
              d >= TriggerDistance =>
                  LET r == UpdateStory(State, d, lives)
                  IN IF d >= IntroDistance THEN r = State
                     ELSE /\ r.currentStoryState = BandOf(d)
                          /\ r.display = "block"
                          /\ r.textContent = storyText(BandOf(d))
                          /\ HideRecordsOf(r) =
                                {[id |-> r.storyTimeout,
                                  due |-> now + DefaultDuration,
                                  kind |-> "hide", state |-> BandOf(d)]}
                          /\ ~r.hasCompletedGame
    /\ \A lives \in Lives :
          LET far == UpdateStory(State, 90, lives)
              near == UpdateStory(far, 30, lives)
          IN /\ far.currentStoryState = APPROACHING
                    => currentStoryState = APPROACHING
             /\ near.currentStoryState = APPROACHING
                    => currentStoryState = APPROACHING

\* A frame after startup has just displayed approaching: its hide timer is
\* due 3000 ms from now.
C17_Witness ==
    /\ ~hasCompletedGame
    /\ currentStoryState = APPROACHING
    /\ now > 0
    /\ HideTimerRecords = {[id |-> storyTimeout, due |-> now + DefaultDuration,
                            kind |-> "hide", state |-> APPROACHING]}

(* ---------------- C18 -------------------------------------------------- *)
\* The displays of the transformation sequence so far, in order.
ChainShown == SelectSeq(shown, LAMBDA state : state \in TerminalStates)

\* C18: in every execution the displays of touch, transformation and
\* epilogue so far are the first few of that list, each at most once and in
\* that order; the swirl is spawned at most once, by step 2, after the
\* trigger has spawned the shatter burst; and the restart button is created
\* at most once and only after the epilogue has been displayed.
C18_ChainOrderedOnce ==
    /\ [](/\ \E n \in 0..3 :
                ChainShown = SubSeq(<<TOUCH, TRANSFORMATION, EPILOGUE>>, 1, n)
          /\ Cardinality(GroupsOfKind("transformation")) <= 1
          /\ GroupsOfKind("transformation") # {} =>
                (triggerCount = 1 /\ Len(ChainShown) >= 2)
          /\ restartButtons <= 1
          /\ restartButtons > 0 => ChainShown = <<TOUCH, TRANSFORMATION, EPILOGUE>>)
    /\ [][ /\ Cardinality(GroupsOfKind("shatter")') > Cardinality(GroupsOfKind("shatter"))
              => (triggerCount = 0 /\ triggerCount' = 1
                  /\ GroupsOfKind("transformation")' = {})
           /\ Cardinality(GroupsOfKind("transformation")') >
                  Cardinality(GroupsOfKind("transformation"))
              => (FireTimer("step2") /\ triggerCount = 1
                  /\ ChainShown = <<TOUCH>>)
           /\ restartButtons' > restartButtons
              => (FireTimer("restart") /\ restartButtons = 0) ]_vars

\* The whole chain has run once: the three texts in order, the swirl and
\* one restart button.
C18_Witness ==
    /\ ChainShown = <<TOUCH, TRANSFORMATION, EPILOGUE>>
    /\ GroupsOfKind("transformation") # {}
    /\ restartButtons = 1
    /\ triggerCount = 1

(* ---------------- C19 -------------------------------------------------- *)
\* The frame that reads reading d displays state if nothing is displayed.
ReadingDisplays(d, state) ==
    (Reads(d) /\ ~hasCompletedGame /\ currentStoryState = NULL) => Displays(state)

\* C19: a hide timer that fires leaves nothing displayed, and before
\* completion a frame that finds nothing displayed displays the state of
\* its band whatever was displayed and hidden before it: approaching at 5
\* and intro at 9 after very_close, very_close again at 2;
\* once touch has been displayed no frame displays anything, and only
\* transformation and epilogue are displayed after it.
C19_ReenterableInReverse ==
    /\ [][ /\ FireTimer("hide") => (currentStoryState' = NULL /\ display' = "none")
           /\ ReadingDisplays(50, APPROACHING)
           /\ ReadingDisplays(90, INTRO)
           /\ ReadingDisplays(20, VERY_CLOSE)
           /\ \A d \in {35, 55, 95} : Reads(d) => (hasCompletedGame /\ NoDisplay)
           /\ (hasCompletedGame /\ Len(shown') > Len(shown)) =>
                 shown'[Len(shown')] \in {TRANSFORMATION, EPILOGUE} ]_vars
    /\ [](\A i, j \in 1..Len(shown) :
             (i < j /\ shown[i] = TOUCH) =>
                 shown[j] \in {TRANSFORMATION, EPILOGUE})

\* The player has come close, retreated through approaching and intro as
\* each display was hidden, come back to very_close and touched the orb;
\* the later readings in the three bands have displayed nothing.
C19_Witness ==
    /\ prevDistance = 95
    /\ Len(shown) >= 5
    /\ SubSeq(shown, 1, 5) = <<VERY_CLOSE, APPROACHING, INTRO, VERY_CLOSE, TOUCH>>
    /\ \A i \in 6..Len(shown) : shown[i] \in {TRANSFORMATION, EPILOGUE}

(* ---------------- C20 -------------------------------------------------- *)
\* value is percent % of original.
PercentOf(value, percent, original) == value * 100 = original * percent

LightsUnchanged == UNCHANGED <<ambientIntensity, pointIntensity>>

\* C20 as stated: step 2 leaves the ambient light at 10% and the point light
\* at 20% of the intensities they were created with, and no other step of
\* the chain changes either.
C20_TenAndTwentyPercent ==
    [][ /\ FireTimer("step2") =>
              /\ PercentOf(ambientIntensity', 10, AmbientInitial)
              /\ PercentOf(pointIntensity', 20, PointInitial)
        /\ (hasCompletedGame' /\ ~FireTimer("step2")) => LightsUnchanged ]_vars

\* C20 as the code has it: step 2 sets the ambient light to 0.1 and the
\* point light to 0.2, each 20% of the intensity the light was created with
\* (0.5 and 1); no other step of the chain changes either, so that the
\* lights are dimmed exactly from the display of transformation on.
C20_DimmedAtStep2 ==
    /\ [][ /\ FireTimer("step2") =>
                 /\ ambientIntensity = AmbientInitial
                 /\ pointIntensity = PointInitial
                 /\ ambientIntensity' = AmbientDimmed
                 /\ pointIntensity' = PointDimmed
                 /\ PercentOf(ambientIntensity', 20, AmbientInitial)
                 /\ PercentOf(pointIntensity', 20, PointInitial)
           /\ (hasCompletedGame' /\ ~FireTimer("step2")) => LightsUnchanged ]_vars
    /\ [](IF Len(ChainShown) >= 2
          THEN ambientIntensity = AmbientDimmed /\ pointIntensity = PointDimmed
          ELSE ambientIntensity = AmbientInitial /\ pointIntensity = PointInitial)

\* The chain has run to the restart button with the lights as step 2 left
\* them.
C20_Witness ==
    /\ restartButtons = 1
    /\ timers = <<>>
    /\ ambientIntensity = AmbientDimmed
    /\ pointIntensity = PointDimmed
    /\ ChainShown = <<TOUCH, TRANSFORMATION, EPILOGUE>>

(* ---------------- C21 -------------------------------------------------- *)
\* C21: in every reachable state the story container is displayed exactly
\* when currentStoryState is not null, which is exactly when a hide timer is
\* pending; the text displayed is that of currentStoryState and the pending
\* hide timer is the one started for it, due within its duration; and so,
\* time passing and due timers being run, every displayed state eventually
\* gives way, at the latest when the display is hidden and no state is
\* current.
C21_OverlayMatchesState ==
    /\ [](/\ (display = "block") = (currentStoryState # NULL)
          /\ (currentStoryState # NULL) = (HideTimers # {})
          /\ display = "block" => textContent = storyText(currentStoryState)
          /\ \A i \in HideTimers :
                /\ timers[i].state = currentStoryState
                /\ timers[i].due <= now + DurationOf(currentStoryState))
    /\ (currentStoryState # NULL) ~> (currentStoryState = NULL)

\* The epilogue, the last display of all, has been hidden by its timer.
C21_Witness ==
    /\ ChainShown = <<TOUCH, TRANSFORMATION, EPILOGUE>>
    /\ currentStoryState = NULL
    /\ display = "none"
    /\ HideTimers = {}
    /\ textContent = storyText(EPILOGUE)

(* ---------------- C22 -------------------------------------------------- *)
\* C22: whatever the order in which frames, chain timers and hide timers
\* run, and whichever of a hide timer and a chain timer due at the same
\* instant runs first, a hide timer that runs was started for the story
\* state that is current when it runs, and it leaves none current; a chain
\* step that runs first and displays its state leaves no hide timer of an
\* older state behind.
C22_NoStaleHide ==
    [][\A i \in DueTimers :
          /\ (timers[i].kind = "hide" /\ FireTimerAt(i))
                => /\ timers[i].state = currentStoryState
                   /\ currentStoryState' = NULL
          /\ (timers[i].kind \in {"step2", "step3"} /\ FireTimerAt(i))
                => \A j \in HideTimers' :
                      timers'[j].state = currentStoryState']_vars

\* The hide timer of touch and the step-2 timer came due at the same
\* instant; the hide timer ran first and hid touch, and step 2 is still due.
C22_Witness ==
    /\ ChainShown = <<TOUCH>>
    /\ currentStoryState = NULL
    /\ display = "none"
    /\ textContent = storyText(TOUCH)
    /\ HideTimers = {}
    /\ \E i \in DueTimers : timers[i].kind = "step2" /\ timers[i].due = now

(* ---------------- C23 -------------------------------------------------- *)
AudioParameters == <<masterGainNode, wetGainNode, dryGainNode, tones>>

\* C23: once the trigger has run the orb is invisible, and no frame, at any
\* distance, changes a gain or plays a tone; until the page is reloaded the
\* one step that changes a gain or plays a tone of initialised audio is
\* step 2, which ramps the wet gain to its maximum and plays the transition
\* tone and leaves the other gains alone, and once step 2 has run the wet
\* gain stays as it is.
C23_NoProximityAudioAfterTrigger ==
    /\ [](hasCompletedGame =>
            /\ ~orbVisible
            /\ \A d \in Distances, delta \in Deltas, lives \in Lives :
                  SameAudio(State, Animate(State, d, delta, lives)))
    /\ [][(hasCompletedGame /\ hasCompletedGame') =>
            /\ (AudioParameters' # AudioParameters /\ audioContext)
                  => /\ FireTimer("step2")
                     /\ wetGainNode' = GainNode(WetMaximum)
                     /\ tones' = tones + 1
                     /\ masterGainNode' = masterGainNode
                     /\ dryGainNode' = dryGainNode
            /\ (Defined(wetGainNode) /\ TimersOfKind("step2") = {})
                  => wetGainNode' = wetGainNode]_vars

\* Step 2 has ramped the wet gain and played the tone, and a frame has run
\* since, turning the swirl, with the orb invisible.
C23_Witness ==
    /\ hasCompletedGame
    /\ ~orbVisible
    /\ TimersOfKind("step2") = {}
    /\ wetGainNode = GainNode(WetMaximum)
    /\ tones = 1
    /\ \E i \in GroupsOfKind("transformation") : effects[i].turns = 1

====
